---- MODULE Spec2Model ----
(***************************************************************************)
(* Model of the Joker DNS provider (src/provider.go): Provision, the       *)
(* grouping of records into rrsets, AppendRecords / DeleteRecords and the  *)
(* replace request built by replaceRRSet.                                  *)
(*                                                                         *)
(* Go strings whose characters matter (names, zones, record data) are      *)
(* sequences of one-character strings.  Credentials and record types are   *)
(* only compared for equality and stay TLA+ strings.  A time.Duration is   *)
(* an integer number of milliseconds.                                      *)
(***************************************************************************)
EXTENDS Integers, Sequences, FiniteSets, TLC

\* ------------------------------------------------------------------ bounds
\* Longest record list handed to AppendRecords / DeleteRecords.
MaxRecs == 3
\* Longest record list of one call against the storing upstream.
MaxBatch == 2
\* Number of calls made against the storing upstream.
MaxOps == 2
\* Longest string handed to normalizeTXT / labelRelativeToZone on their own.
MaxStr == 5

\* Joker's documented TTL range, in seconds.
JokerMinTTL == 60
JokerMaxTTL == 86400

\* ------------------------------------------------------------- Go strings
Dot == "."
Quote == "\""
Comma == ","

\* strings.HasPrefix
HasPrefix(s, p) == Len(s) >= Len(p) /\ SubSeq(s, 1, Len(p)) = p

\* strings.HasSuffix
HasSuffix(s, suf) ==
  Len(s) >= Len(suf) /\ SubSeq(s, Len(s) - Len(suf) + 1, Len(s)) = suf

\* strings.TrimSuffix: removes one trailing occurrence of suf, if present.
TrimSuffix(s, suf) ==
  IF HasSuffix(s, suf) THEN SubSeq(s, 1, Len(s) - Len(suf)) ELSE s

RECURSIVE TrimLeft(_, _)
TrimLeft(s, c) ==
  IF s /= <<>> /\ Head(s) = c THEN TrimLeft(Tail(s), c) ELSE s

RECURSIVE TrimRight(_, _)
TrimRight(s, c) ==
  IF s /= <<>> /\ s[Len(s)] = c THEN TrimRight(SubSeq(s, 1, Len(s) - 1), c) ELSE s

\* strings.Trim with a one-character cutset: removes every leading and every
\* trailing occurrence of c.
Trim(s, c) == TrimRight(TrimLeft(s, c), c)

\* strings.Join
RECURSIVE Join(_, _)
Join(values, sep) ==
  IF values = <<>> THEN <<>>
  ELSE IF Len(values) = 1 THEN values[1]
  ELSE values[1] \o <<sep>> \o Join(Tail(values), sep)

Digit(d) == <<"0", "1", "2", "3", "4", "5", "6", "7", "8", "9">>[d + 1]

RECURSIVE ItoaNat(_)
ItoaNat(n) == IF n < 10 THEN <<Digit(n)>> ELSE ItoaNat(n \div 10) \o <<Digit(n % 10)>>

\* strconv.Itoa
Itoa(n) == IF n < 0 THEN <<"-">> \o ItoaNat(-n) ELSE ItoaNat(n)

\* int(d.Seconds()): the duration in seconds, truncated toward zero.
Seconds(d) == IF d >= 0 THEN d \div 1000 ELSE -((-d) \div 1000)

\* --------------------------------------------------------- pure functions
normalizeTXT(v) ==
  IF Len(v) >= 2 /\ HasPrefix(v, <<Quote>>) /\ HasSuffix(v, <<Quote>>)
  THEN Trim(v, Quote)
  ELSE v

\* The clamp used by minTTL and again by replaceRRSet.
clampTTL(t) ==
  IF t < JokerMinTTL THEN JokerMinTTL
  ELSE IF t > JokerMaxTTL THEN JokerMaxTTL
  ELSE t

RECURSIVE minLoop(_, _)
minLoop(records, min) ==
  IF records = <<>> THEN min
  ELSE LET t == Seconds(Head(records).TTL)
       IN  minLoop(Tail(records), IF t < min THEN t ELSE min)

\* A minTTL that keeps the first record's TTL instead of the minimum.
minTTLFirst(records) ==
  IF Len(records) = 0 THEN JokerMinTTL ELSE clampTTL(Seconds(records[1].TTL))

minTTL(records) ==
  IF Len(records) = 0 THEN 60
  ELSE clampTTL(minLoop(Tail(records), Seconds(records[1].TTL)))

normalizeZone(z) == TrimSuffix(z, <<Dot>>)

labelRelativeToZone(name, zone) ==
  LET n1 == TrimSuffix(name, <<Dot>>)
      z1 == TrimSuffix(zone, <<Dot>>)
      suffix == <<Dot>> \o z1
      n2 == IF HasSuffix(n1, suffix) THEN TrimSuffix(n1, suffix) ELSE n1
  IN  TrimSuffix(n2, <<Dot>>)

\* --------------------------------------------------------------- grouping
\* An rrsetKey that forgets the record type.
rrsetKeyNoType(z, rec) ==
  [zone |-> z, label |-> labelRelativeToZone(rec.Name, z), rtype |-> "TXT"]

\* The key built for one record in the grouping loop.
rrsetKeyOf(z, rec) ==
  [zone |-> z, label |-> labelRelativeToZone(rec.Name, z), rtype |-> rec.Type]

\* grouped[key] = append(grouped[key], rec) on a Go map (a missing key reads
\* as the nil slice).
mapAppend(grouped, key, rec) ==
  IF key \in DOMAIN grouped
  THEN [grouped EXCEPT ![key] = Append(@, rec)]
  ELSE [k \in DOMAIN grouped \cup {key} |->
          IF k = key THEN <<rec>> ELSE grouped[k]]

RECURSIVE groupLoop(_, _, _)
groupLoop(grouped, z, records) ==
  IF records = <<>> THEN grouped
  ELSE groupLoop(mapAppend(grouped, rrsetKeyOf(z, Head(records)), Head(records)),
                 z, Tail(records))

\* The first loop of AppendRecords and DeleteRecords.
group(zone, records) == groupLoop(<<>>, normalizeZone(zone), records)

\* The value list AppendRecords builds for one group.
appendValues(key, recs) ==
  [i \in 1..Len(recs) |->
     IF key.rtype = "TXT" THEN normalizeTXT(recs[i].Data) ELSE recs[i].Data]

\* A DeleteRecords that passes the group's data as AppendRecords does.
deleteValuesWithData(key, recs) == [i \in 1..Len(recs) |-> recs[i].Data]

\* The value list DeleteRecords passes: nil.
deleteValues(key, recs) == <<>>

\* ---------------------------------------------------------------- inputs
\* Provider configurations as the Caddyfile gives them.
CredConfigs ==
  { [Username |-> "",     Password |-> "",     APIToken |-> ""],
    [Username |-> "",     Password |-> "",     APIToken |-> "tok"],
    [Username |-> "user", Password |-> "pass", APIToken |-> ""],
    [Username |-> "user", Password |-> "pass", APIToken |-> "tok"],
    [Username |-> "user", Password |-> "",     APIToken |-> "tok"],
    [Username |-> "",     Password |-> "",     APIToken |-> "{env.UNSET}"] }

\* caddy.NewReplacer().ReplaceAll(s, ""): a placeholder with no value becomes
\* the empty string; text without placeholders is kept.
ReplaceAll(s) == IF s = "{env.UNSET}" THEN "" ELSE s

\* The zone as the caller writes it for AppendRecords / DeleteRecords (libdns
\* passes it with its trailing dot), and the zones given to
\* labelRelativeToZone on its own.
Zones == { <<"z", ".">> }
FnZones == { <<"z">>, <<"z", ".">> }

Records ==
  { [Name |-> <<"f">>,                Type |-> "TXT", Data |-> <<Quote, "a", Quote>>, TTL |-> 30000],
    [Name |-> <<"f", ".", "z">>,      Type |-> "TXT", Data |-> <<"b">>,               TTL |-> 90500],
    [Name |-> <<"f", ".", "z", ".">>, Type |-> "A",   Data |-> <<Quote, "a", Quote>>, TTL |-> 100000000],
    [Name |-> <<"g", ".", "z">>,      Type |-> "TXT", Data |-> <<"a", ",", "b">>,     TTL |-> -500],
    [Name |-> <<"z">>,                Type |-> "A",   Data |-> <<"b">>,               TTL |-> 3600000] }

SeqsUpTo(S, n) == UNION { [1..k -> S] : k \in 0..n }

\* What client.Do and the status check of replaceRRSet can yield: HTTP 200,
\* a transport error or non-200 status, or the context's error.
Outcomes == {"ok", "upstream", "ctx"}

\* ------------------------------------------------------------------ state
VARIABLES
  Username, Password, APIToken,  \* Provider's credential fields
  client, logger,                \* TRUE when the field is non-nil
  provErr,                       \* what Provision returned ("unset": not called)
  pc,                            \* position of the call in progress
  op, zone, records,             \* the call's name and arguments
  ctx,                           \* the caller's context: "live" or "cancelled"
  grouped, todo,                 \* the map built by the first loop; keys not yet ranged over
  calls,                         \* the replaceRRSet calls made, in order
  added, err,                    \* the call's results (added / deleted, error)
  rrsets, kept, nops,            \* the storing upstream, the values it should hold, calls so far
  fn, fnIn, fnZone, fnOut, fnOut2 \* a pure function called on its own

vars == << Username, Password, APIToken, client, logger, provErr, pc, op, zone,
           records, ctx, grouped, todo, calls, added, err, rrsets, kept, nops,
           fn, fnIn, fnZone, fnOut, fnOut2 >>

providerVars == << Username, Password, APIToken, client, logger, provErr >>
callVars == << pc, op, zone, records, ctx, grouped, todo, calls, added, err >>
upstreamVars == << rrsets, kept, nops >>
fnVars == << fn, fnIn, fnZone, fnOut, fnOut2 >>

\* -------------------------------------------------------------- Provision
\* The switch at the end of Provision: the error it returns.
provisionError(username, password, token) ==
  LET hasUserPass == username /= "" /\ password /= ""
      hasToken == token /= ""
  IN  IF hasToken /\ hasUserPass THEN "both"
      ELSE IF hasToken THEN "nil"
      ELSE IF username /= "" /\ password /= "" THEN "nil"
      ELSE "neither"

\* Provision: expands placeholders, sets client and logger, then validates.
Provision ==
  /\ pc = "idle"
  /\ provErr = "unset"
  /\ Username' = ReplaceAll(Username)
  /\ Password' = ReplaceAll(Password)
  /\ APIToken' = ReplaceAll(APIToken)
  /\ client' = TRUE
  /\ logger' = TRUE
  /\ provErr' = provisionError(Username', Password', APIToken')
  /\ UNCHANGED << callVars, upstreamVars, fnVars >>

\* ----------------------------------------------------------- replaceRRSet
\* The form replaceRRSet posts, and the arguments it was called with.
replaceRRSet(zn, label, rtype, values, ttl) ==
  [ zone |-> zn, label |-> label, rtype |-> rtype, values |-> values, ttl |-> ttl,
    form |-> [ zone  |-> normalizeZone(zn),
               label |-> TrimSuffix(label, <<Dot>>),
               type  |-> rtype,
               ttl   |-> Itoa(clampTTL(ttl)),
               value |-> IF Len(values) > 0 THEN Join(values, Comma) ELSE <<>>,
               api_token |-> IF APIToken /= "" THEN APIToken ELSE "",
               username  |-> IF APIToken /= "" THEN "" ELSE Username,
               password  |-> IF APIToken /= "" THEN "" ELSE Password ] ]

\* The error replaceRRSet returns for an outcome of the HTTP exchange.
replaceError(outcome) == IF outcome = "ok" THEN "nil" ELSE outcome

\* A loop body that appends the group before looking at the error.
afterReplaceAppendFirst(addedSoFar, recs, e) ==
  [return |-> e /= "nil", added |-> addedSoFar \o recs, err |-> e]

\* The end of the loop body: return on error, else append the group's records.
afterReplace(addedSoFar, recs, e) ==
  IF e /= "nil"
  THEN [return |-> TRUE,  added |-> addedSoFar,         err |-> e]
  ELSE [return |-> FALSE, added |-> addedSoFar \o recs, err |-> "nil"]

\* ---------------------------------------------- AppendRecords / DeleteRecords
\* Entry of a call and its first loop (grouping).
Enter(name, zn, recs) ==
  /\ op' = name
  /\ zone' = zn
  /\ records' = recs
  /\ grouped' = group(zn, recs)
  /\ todo' = DOMAIN grouped'
  /\ added' = <<>>
  /\ err' = "nil"
  /\ pc' = IF todo' = {} THEN "done" ELSE "loop"
  /\ UNCHANGED << ctx, calls, providerVars, upstreamVars, fnVars >>

\* One iteration of the second loop for `key` (Go ranges over the map in an
\* unspecified order), with the outcome of its HTTP exchange.
Iterate(key, values, outcome) ==
  LET recs == grouped[key]
      call == replaceRRSet(key.zone, key.label, key.rtype, values, minTTL(recs))
      r == afterReplace(added, recs, replaceError(outcome))
  IN  /\ calls' = Append(calls, call @@ [outcome |-> outcome])
      /\ ctx' = IF outcome = "ctx" THEN "cancelled" ELSE ctx
      /\ added' = r.added
      /\ todo' = todo \ {key}
      /\ IF r.return
         THEN pc' = "done" /\ err' = r.err
         ELSE pc' = (IF todo' = {} THEN "done" ELSE "loop") /\ err' = "nil"
      /\ UNCHANGED << op, zone, records, grouped, providerVars, upstreamVars, fnVars >>

AppendRecords ==
  /\ pc = "idle"
  /\ \E zn \in Zones, recs \in SeqsUpTo(Records, MaxRecs) :
       Enter("AppendRecords", zn, recs)

AppendRecordsGroup ==
  /\ pc = "loop" /\ op = "AppendRecords" /\ logger
  /\ \E key \in todo, outcome \in Outcomes :
       Iterate(key, appendValues(key, grouped[key]), outcome)

DeleteRecords ==
  /\ pc = "idle"
  /\ \E zn \in Zones, recs \in SeqsUpTo(Records, MaxRecs) :
       Enter("DeleteRecords", zn, recs)

DeleteRecordsGroup ==
  /\ pc = "loop" /\ op = "DeleteRecords" /\ logger
  /\ \E key \in todo, outcome \in Outcomes :
       Iterate(key, deleteValues(key, grouped[key]), outcome)

\* p.logger.Debug on a nil logger: the call panics in its first iteration,
\* before replaceRRSet.
NilLoggerPanic ==
  /\ pc = "loop" /\ ~logger
  /\ pc' = "panic"
  /\ UNCHANGED << op, zone, records, ctx, grouped, todo, calls, added, err,
                  providerVars, upstreamVars, fnVars >>

\* ------------------------------------------------------------------- Spec
Init ==
  /\ \E c \in CredConfigs :
       Username = c.Username /\ Password = c.Password /\ APIToken = c.APIToken
  /\ client = FALSE /\ logger = FALSE /\ provErr = "unset"
  /\ pc = "idle" /\ op = "none" /\ zone = <<>> /\ records = <<>>
  /\ ctx = "live" /\ grouped = <<>> /\ todo = {} /\ calls = <<>>
  /\ added = <<>> /\ err = "nil"
  /\ rrsets = <<>> /\ kept = <<>> /\ nops = 0
  /\ fn = "none" /\ fnIn = <<>> /\ fnZone = <<>> /\ fnOut = <<>> /\ fnOut2 = <<>>

Next ==
  \/ Provision
  \/ AppendRecords
  \/ AppendRecordsGroup
  \/ DeleteRecords
  \/ DeleteRecordsGroup
  \/ NilLoggerPanic

Spec == Init /\ [][Next]_vars

\* --------------------------------------------------- the storing upstream
\* Joker's /nic/replace as replaceRRSet documents it: the call replaces the
\* rrset of (zone, label, type) by the values it carries; no value deletes it.
formKey(form) == [zone |-> form.zone, label |-> form.label, type |-> form.type]

upstreamReplace(store, call) ==
  (formKey(call.form) :> call.values) @@ store

RECURSIVE upstreamReplaceAll(_, _)
upstreamReplaceAll(store, cs) ==
  IF cs = <<>> THEN store
  ELSE upstreamReplaceAll(upstreamReplace(store, Head(cs)), Tail(cs))

Range(f) == { f[x] : x \in DOMAIN f }

\* The orders in which Go may range over a map with key set S.
Orders(S) ==
  { o \in [1..Cardinality(S) -> S] : \A i, j \in DOMAIN o : i /= j => o[i] /= o[j] }

\* History for the no-data-loss property: the values an add put into an rrset
\* and no delete has removed since.
RECURSIVE keptAfter(_, _, _)
keptAfter(k, name, cs) ==
  IF cs = <<>> THEN k
  ELSE LET key == formKey(Head(cs).form)
           old == IF key \in DOMAIN k THEN k[key] ELSE {}
           new == IF name = "AppendRecords" THEN old \cup Range(Head(cs).values) ELSE {}
       IN  keptAfter((key :> new) @@ k, name, Tail(cs))

\* A whole successful call: every replace call it makes gets HTTP 200.
callsOf(name, g, order) ==
  [i \in 1..Len(order) |->
     LET key == order[i]
         values == IF name = "AppendRecords" THEN appendValues(key, g[key])
                   ELSE deleteValues(key, g[key])
     IN  replaceRRSet(key.zone, key.label, key.rtype, values, minTTL(g[key]))
           @@ [outcome |-> "ok"]]

SuccessfulCall(name) ==
  /\ \E zn \in Zones, recs \in SeqsUpTo(Records, MaxBatch) :
       LET g == group(zn, recs)
       IN  \E order \in Orders(DOMAIN g) :
             /\ op' = name /\ zone' = zn /\ records' = recs
             /\ calls' = callsOf(name, g, order)
             /\ added' = recs /\ err' = "nil"
             /\ rrsets' = upstreamReplaceAll(rrsets, calls')
             /\ kept' = keptAfter(kept, name, calls')
             /\ nops' = nops + 1
  /\ UNCHANGED << pc, ctx, grouped, todo, providerVars, fnVars >>

SuccessfulAppendRecords ==
  /\ logger
  /\ nops < MaxOps
  /\ SuccessfulCall("AppendRecords")

SuccessfulDeleteRecords ==
  /\ logger
  /\ nops < MaxOps
  /\ SuccessfulCall("DeleteRecords")

InitUpstream ==
  /\ Username = "user" /\ Password = "pass" /\ APIToken = ""
  /\ client = FALSE /\ logger = FALSE /\ provErr = "unset"
  /\ pc = "idle" /\ op = "none" /\ zone = <<>> /\ records = <<>>
  /\ ctx = "live" /\ grouped = <<>> /\ todo = {} /\ calls = <<>>
  /\ added = <<>> /\ err = "nil"
  /\ rrsets = <<>> /\ kept = <<>> /\ nops = 0
  /\ fn = "none" /\ fnIn = <<>> /\ fnZone = <<>> /\ fnOut = <<>> /\ fnOut2 = <<>>

NextUpstream ==
  \/ Provision
  \/ SuccessfulAppendRecords
  \/ SuccessfulDeleteRecords

SpecUpstream == InitUpstream /\ [][NextUpstream]_vars

\* ------------------------------------------- the pure functions on their own
TXTChars == {Quote, "a"}
NameChars == {Dot, "f", "z"}

CallNormalizeTXT ==
  /\ fn = "none"
  /\ \E v \in SeqsUpTo(TXTChars, MaxStr) :
       /\ fn' = "normalizeTXT"
       /\ fnIn' = v
       /\ fnOut' = normalizeTXT(v)
  /\ UNCHANGED << fnZone, fnOut2, providerVars, callVars, upstreamVars >>

CallLabelRelativeToZone ==
  /\ fn = "none"
  /\ \E name \in SeqsUpTo(NameChars, MaxStr), zn \in FnZones :
       /\ fn' = "labelRelativeToZone"
       /\ fnIn' = name
       /\ fnZone' = zn
       /\ fnOut' = labelRelativeToZone(name, zn)
  /\ UNCHANGED << fnOut2, providerVars, callVars, upstreamVars >>

\* labelRelativeToZone applied to its own result.
CallLabelRelativeToZoneAgain ==
  /\ fn = "labelRelativeToZone"
  /\ fn' = "labelRelativeToZone twice"
  /\ fnOut2' = labelRelativeToZone(fnOut, fnZone)
  /\ UNCHANGED << fnIn, fnZone, fnOut, providerVars, callVars, upstreamVars >>

NextFn ==
  \/ CallNormalizeTXT
  \/ CallLabelRelativeToZone
  \/ CallLabelRelativeToZoneAgain

InitFn == InitUpstream

SpecFn == InitFn /\ [][NextFn]_vars

\* ======================================================================
\* Properties of AppendRecords / DeleteRecords (specification Spec)
\* ======================================================================
\* The rrset identity of an input record, stated from its fields: normalized
\* zone, zone-relative label, type.
ClaimKey(r) ==
  [zone  |-> normalizeZone(zone),
   label |-> labelRelativeToZone(r.Name, normalizeZone(zone)),
   rtype |-> r.Type]

\* The rrset a replaceRRSet call addressed.
CallKey(c) == [zone |-> c.zone, label |-> c.label, rtype |-> c.rtype]

\* The input records of one rrset, in the caller's order.
MembersOf(k) == SelectSeq(records, LAMBDA r : ClaimKey(r) = k)

InputKeys == { ClaimKey(records[i]) : i \in 1..Len(records) }

\* The records of the rrsets of a sequence of calls, call by call.
RECURSIVE MembersOfCalls(_)
MembersOfCalls(cs) ==
  IF cs = <<>> THEN <<>> ELSE MembersOf(CallKey(Head(cs))) \o MembersOfCalls(Tail(cs))

\* Index of the first input record of rrset k.
FirstIndex(k) ==
  CHOOSE i \in 1..Len(records) :
    /\ ClaimKey(records[i]) = k
    /\ \A j \in 1..(i - 1) : ClaimKey(records[j]) /= k

MinOf(S) == CHOOSE m \in S : \A x \in S : m <= x

\* clamp(t) = min(max(t, 60), 86400)
ClaimClamp(t) ==
  LET lo == IF t > JokerMinTTL THEN t ELSE JokerMinTTL
  IN  IF lo < JokerMaxTTL THEN lo ELSE JokerMaxTTL

\* Whether the provider's credentials, once expanded, configure each scheme.
HasTokenScheme == ReplaceAll(APIToken) /= ""
HasUserPassScheme == ReplaceAll(Username) /= "" /\ ReplaceAll(Password) /= ""

\* C1: fail-fast partial success.  No replace call is issued after a failing
\* one, and a call that returns an error returns exactly the records of the
\* groups whose replace call succeeded before it, none of the failing group or
\* of a group not attempted.
C1_FailFast ==
  /\ \A i \in 1..Len(calls) : i < Len(calls) => calls[i].outcome = "ok"
  /\ \A i, j \in 1..Len(calls) : i /= j => CallKey(calls[i]) /= CallKey(calls[j])
  /\ (pc = "done" /\ err /= "nil") =>
       LET succeeded == SubSeq(calls, 1, Len(calls) - 1)
           addedKeys == { ClaimKey(added[i]) : i \in 1..Len(added) }
       IN  /\ calls /= <<>>
           /\ calls[Len(calls)].outcome = err
           /\ added = MembersOfCalls(succeeded)
           /\ CallKey(calls[Len(calls)]) \notin addedKeys
           /\ addedKeys \subseteq { CallKey(succeeded[j]) : j \in 1..Len(succeeded) }
  /\ (pc = "done" /\ err = "nil") =>
       \A i \in 1..Len(calls) : calls[i].outcome = "ok"

\* The second of three groups fails: one group is returned, the third is
\* never attempted.
C1_Witness ==
  /\ pc = "done" /\ err /= "nil"
  /\ Cardinality(DOMAIN grouped) = 3
  /\ Len(calls) = 2
  /\ added /= <<>>

\* C2: encounter order.  Groups are applied, and their records returned, in
\* the order in which each group's first member occurs in the input.
C2_EncounterOrder ==
  /\ \A i, j \in 1..Len(calls) :
       i < j => FirstIndex(CallKey(calls[i])) < FirstIndex(CallKey(calls[j]))
  /\ pc = "done" =>
       \A i, j \in 1..Len(added) :
         i < j => FirstIndex(ClaimKey(added[i])) <= FirstIndex(ClaimKey(added[j]))

\* C4: a successful AppendRecords issues exactly one replace call per distinct
\* (zone, relative label, type) of its input, and each call carries the values
\* of exactly the records of that rrset, in the caller's order, TXT values
\* quote-normalized and other types unchanged.
C4_OneCallPerKey ==
  (pc = "done" /\ op = "AppendRecords" /\ err = "nil") =>
    /\ Len(calls) = Cardinality(InputKeys)
    /\ \A k \in InputKeys : \E i \in 1..Len(calls) : CallKey(calls[i]) = k
    /\ \A i \in 1..Len(calls) :
         LET m == MembersOf(CallKey(calls[i]))
         IN  /\ m /= <<>>
             /\ Len(calls[i].values) = Len(m)
             /\ \A n \in 1..Len(m) :
                  calls[i].values[n] =
                    IF m[n].Type = "TXT" THEN normalizeTXT(m[n].Data) ELSE m[n].Data
    /\ added = MembersOfCalls(calls)

\* TXT, A, TXT with the two TXT records of one rrset (different name form,
\* TTL and value): two calls, the TXT call with two values.
C4_Witness ==
  /\ pc = "done" /\ op = "AppendRecords" /\ err = "nil"
  /\ Len(records) = 3 /\ Len(calls) = 2
  /\ records[1].Type = "TXT" /\ records[2].Type = "A" /\ records[3].Type = "TXT"
  /\ records[1].Name /= records[3].Name
  /\ records[1].TTL /= records[3].TTL
  /\ \E i \in 1..2 : Len(calls[i].values) = 2 /\ calls[i].values[1] /= records[1].Data
  /\ \E i \in 1..2 : calls[i].rtype = "A" /\ calls[i].values = <<records[2].Data>>

\* C5: every replace call of DeleteRecords carries an empty value list and
\* posts an empty value.
C5_DeleteSendsNoValue ==
  op = "DeleteRecords" =>
    \A i \in 1..Len(calls) : calls[i].values = <<>> /\ calls[i].form.value = <<>>

\* DeleteRecords has called replace for a group of two records with data.
C5_Witness ==
  /\ op = "DeleteRecords" /\ pc = "done" /\ err = "nil"
  /\ \E i \in 1..Len(calls) :
       LET m == MembersOf(CallKey(calls[i]))
       IN  Len(m) = 2 /\ \A n \in 1..2 : m[n].Data /= <<>>

\* C6: a call ended by the context's cancellation issues no further replace
\* call and returns no partial-success list.
C6_CancelNoPartial ==
  /\ \A i \in 1..Len(calls) : i < Len(calls) => calls[i].outcome /= "ctx"
  /\ (pc = "done" /\ err = "ctx") => added = <<>>

\* C7: with neither or both credential schemes configured a configuration
\* error is raised and no replace call is ever issued; with exactly one
\* scheme no configuration error is raised.
C7_BadConfigNoCalls ==
  /\ (HasTokenScheme = HasUserPassScheme) =>
       /\ provErr \in {"unset", "both", "neither"}
       /\ calls = <<>>
  /\ (HasTokenScheme /= HasUserPassScheme) => provErr \in {"unset", "nil"}

\* C8: every replace call carries a TTL in [60, 86400] equal to the clamped
\* minimum of the TTLs (in whole seconds) of the records of its group, and
\* minTTL of the empty list is 60.
C8_TTL ==
  /\ minTTL(<<>>) = 60
  /\ LET keys == [n \in 1..Len(records) |-> ClaimKey(records[n])]
     IN  \A i \in 1..Len(calls) :
           LET k == CallKey(calls[i])
               ttls == { Seconds(records[n].TTL) : n \in { x \in 1..Len(records) : keys[x] = k } }
               expected == ClaimClamp(MinOf(ttls))
           IN  /\ ttls /= {}
               /\ calls[i].ttl = expected
               /\ calls[i].ttl >= 60 /\ calls[i].ttl <= 86400
               /\ calls[i].form.ttl = Itoa(expected)

\* A group whose first record does not have the smallest TTL, and whose
\* minimum is below the range: the call carries 60.
C8_Witness ==
  \E i \in 1..Len(calls) :
    LET m == MembersOf(CallKey(calls[i]))
    IN  /\ Len(m) = 2
        /\ Seconds(m[1].TTL) > Seconds(m[2].TTL)
        /\ Seconds(m[2].TTL) < 60
        /\ calls[i].form.ttl = <<"6", "0">>

\* The label the apex rule gives a name in a zone, stated from the strings:
\* the empty label for the zone itself (with or without a trailing dot on
\* either), the name without ".zone" when it ends with it, else the name.
ApexRuleLabel(name, zn) ==
  LET n == TrimSuffix(name, <<Dot>>)
      z == TrimSuffix(zn, <<Dot>>)
  IN  IF n = z THEN <<>>
      ELSE IF HasSuffix(n, <<Dot>> \o z) THEN SubSeq(n, 1, Len(n) - Len(z) - 1)
      ELSE n

\* C11: a record whose name is the zone itself gets the empty label, a name
\* ending in ".zone" loses that suffix and any other name is kept: every
\* record of a successful call was sent in a replace call that carries that
\* label, in its arguments and in its form.
C11_ApexLabel ==
  (pc = "done" /\ err = "nil") =>
    \A n \in 1..Len(records) :
      \E i \in 1..Len(calls) :
        /\ calls[i].rtype = records[n].Type
        /\ calls[i].label = ApexRuleLabel(records[n].Name, zone)
        /\ calls[i].form.label = ApexRuleLabel(records[n].Name, zone)

\* ======================================================================
\* Properties against the storing upstream (specification SpecUpstream)
\* ======================================================================
\* C3: an add loses no data.  After every successful call the upstream rrset
\* still holds every value an earlier add put there and no delete removed.
C3_NoDataLoss ==
  \A k \in DOMAIN kept :
    k \in DOMAIN rrsets /\ kept[k] \subseteq Range(rrsets[k])

\* ======================================================================
\* Properties of the pure functions (specification SpecFn)
\* ======================================================================
\* C9: normalizeTXT strips exactly one layer of quoting: a value of length at
\* least 2 that begins and ends with a double quote loses its first and last
\* character, any other value is returned unchanged.
C9_OneLayer ==
  fn = "normalizeTXT" =>
    fnOut = IF Len(fnIn) >= 2 /\ fnIn[1] = Quote /\ fnIn[Len(fnIn)] = Quote
            THEN SubSeq(fnIn, 2, Len(fnIn) - 1)
            ELSE fnIn

\* C10: labelRelativeToZone is idempotent in its first argument.
C10_Idempotent ==
  fn = "labelRelativeToZone twice" => fnOut2 = fnOut

====
